---------------------------- MODULE Spec2Model ----------------------------
(***************************************************************************)
(* Model of src/app.py (cgpa-shyne): the transcript text extractors, the   *)
(* SGPA/CGPA arithmetic and the /generate request handler.                 *)
(*                                                                         *)
(* A text is a sequence of one-character strings.  The regular expressions *)
(* of the source are transcribed item by item and run by a backtracking    *)
(* matcher that tries alternatives in the order Python's re module does.   *)
(* Texts are over ASCII letters, digits, blanks and punctuation.           *)
(* Decimal results of round(x, 2) are held as integer hundredths.          *)
(***************************************************************************)
EXTENDS Integers, Sequences, FiniteSets, TLC

----------------------------------------------------------------------------
(* Characters and character classes                                        *)

UpperSeq ==
    <<"A", "B", "C", "D", "E", "F", "G", "H", "I", "J", "K", "L", "M",
      "N", "O", "P", "Q", "R", "S", "T", "U", "V", "W", "X", "Y", "Z">>

LowerSeq ==
    <<"a", "b", "c", "d", "e", "f", "g", "h", "i", "j", "k", "l", "m",
      "n", "o", "p", "q", "r", "s", "t", "u", "v", "w", "x", "y", "z">>

DigitSeq == <<"0", "1", "2", "3", "4", "5", "6", "7", "8", "9">>

Range(s) == {s[i] : i \in DOMAIN s}

Upper == Range(UpperSeq)

Lower == Range(LowerSeq)

Digits == Range(DigitSeq)

\* \s
Space == {" ", "\n", "\t", "\r"}

\* \w, used by \b
Word == Upper \cup Lower \cup Digits \cup {"_"}

\* re.IGNORECASE: a class also matches the other case of its letters
IgnoreCase(S) ==
    S \cup {LowerSeq[i] : i \in {j \in 1..26 : UpperSeq[j] \in S}}
      \cup {UpperSeq[i] : i \in {j \in 1..26 : LowerSeq[j] \in S}}

\* int() of one decimal digit
DigitVal(c) == (CHOOSE i \in 1..10 : DigitSeq[i] = c) - 1

RECURSIVE ToInt(_)
\* int() of a run of decimal digits
ToInt(ds) ==
    IF ds = <<>> THEN 0
    ELSE 10 * ToInt(SubSeq(ds, 1, Len(ds) - 1)) + DigitVal(ds[Len(ds)])

RECURSIVE LStrip(_)
LStrip(s) ==
    IF s # <<>> /\ s[1] \in Space THEN LStrip(Tail(s)) ELSE s

RECURSIVE RStrip(_)
RStrip(s) ==
    IF s # <<>> /\ s[Len(s)] \in Space
    THEN RStrip(SubSeq(s, 1, Len(s) - 1)) ELSE s

\* str.strip()
Strip(s) == RStrip(LStrip(s))

----------------------------------------------------------------------------
(* Regular expressions: a pattern is a sequence of items                   *)

\* no upper limit on a repetition (+)
Unbounded == 1000000

NoAlts == <<>>

\* a character class repeated lo..hi times, greedy or lazy
Cls(S, lo, hi, lazy) ==
    [k |-> "cls", cls |-> S, lo |-> lo, hi |-> hi, lazy |-> lazy,
     g |-> 0, alts |-> NoAlts, lit |-> <<>>]

One(S) == Cls(S, 1, 1, FALSE)

Plus(S) == Cls(S, 1, Unbounded, FALSE)

LazyPlus(S) == Cls(S, 1, Unbounded, TRUE)

Opt(S) == Cls(S, 0, 1, FALSE)

\* a literal string, held as the set of characters each position accepts;
\* ci is the IGNORECASE flag
Lit(s, ci) ==
    [k |-> "lit", cls |-> {}, lo |-> 0, hi |-> 0, lazy |-> FALSE,
     g |-> 0, alts |-> NoAlts,
     lit |-> [i \in 1..Len(s) |-> IF ci THEN IgnoreCase({s[i]}) ELSE {s[i]}]]

\* ( and ) of capture group g
Open(g) ==
    [k |-> "open", cls |-> {}, lo |-> 0, hi |-> 0, lazy |-> FALSE,
     g |-> g, alts |-> NoAlts, lit |-> <<>>]

Close(g) ==
    [k |-> "close", cls |-> {}, lo |-> 0, hi |-> 0, lazy |-> FALSE,
     g |-> g, alts |-> NoAlts, lit |-> <<>>]

\* \b
WordBoundary ==
    [k |-> "wb", cls |-> {}, lo |-> 0, hi |-> 0, lazy |-> FALSE,
     g |-> 0, alts |-> NoAlts, lit |-> <<>>]

\* (?:a|b|c): branches tried left to right
Alt(branches) ==
    [k |-> "alt", cls |-> {}, lo |-> 0, hi |-> 0, lazy |-> FALSE,
     g |-> 0, alts |-> branches, lit |-> <<>>]

NoMatch == [ok |-> FALSE, end |-> 0, caps |-> <<>>]

NoCaps(n) == [g \in 1..n |-> [s |-> 0, e |-> 0]]

IsWordBoundary(text, pos) ==
    LET before == pos > 1 /\ text[pos - 1] \in Word
        after == pos <= Len(text) /\ text[pos] \in Word
    IN  before # after

RECURSIVE RunLength(_, _, _, _)
\* how many characters from pos on are in S, counting at most hi
RunLength(S, text, pos, hi) ==
    IF hi = 0 \/ pos > Len(text) \/ text[pos] \notin S THEN 0
    ELSE 1 + RunLength(S, text, pos + 1, hi - 1)

RECURSIVE MatchFrom(_, _, _, _)
RECURSIVE TryCount(_, _, _, _, _, _)
RECURSIVE TryAlts(_, _, _, _, _, _)

\* match the items at pos; the first success in backtracking order
MatchFrom(items, text, pos, caps) ==
    IF items = <<>> THEN [ok |-> TRUE, end |-> pos, caps |-> caps]
    ELSE LET it == Head(items)
             rest == Tail(items)
         IN  CASE it.k = "open" ->
                    MatchFrom(rest, text, pos, [caps EXCEPT ![it.g].s = pos])
               [] it.k = "close" ->
                    MatchFrom(rest, text, pos, [caps EXCEPT ![it.g].e = pos])
               [] it.k = "wb" ->
                    IF IsWordBoundary(text, pos)
                    THEN MatchFrom(rest, text, pos, caps) ELSE NoMatch
               [] it.k = "lit" ->
                    IF /\ pos + Len(it.lit) - 1 <= Len(text)
                       /\ \A i \in 1..Len(it.lit) : text[pos + i - 1] \in it.lit[i]
                    THEN MatchFrom(rest, text, pos + Len(it.lit), caps)
                    ELSE NoMatch
               [] it.k = "alt" ->
                    TryAlts(it.alts, 1, rest, text, pos, caps)
               [] it.k = "cls" ->
                    LET run == RunLength(it.cls, text, pos, it.hi)
                    IN  IF run < it.lo THEN NoMatch
                        ELSE IF run = it.lo
                        THEN MatchFrom(rest, text, pos + run, caps)
                        ELSE TryCount(it, run, rest, text, pos, caps)

\* the repetition count the backtracking settles on: of the counts after
\* which the rest matches, the smallest (lazy) or the largest (greedy)
TryCount(it, run, rest, text, pos, caps) ==
    LET tries == {<<n, MatchFrom(rest, text, pos + n, caps)>> : n \in it.lo..run}
        good == {t \in tries : t[2].ok}
    IN  IF good = {} THEN NoMatch
        ELSE IF it.lazy
             THEN (CHOOSE t \in good : \A o \in good : t[1] <= o[1])[2]
             ELSE (CHOOSE t \in good : \A o \in good : t[1] >= o[1])[2]

TryAlts(alts, i, rest, text, pos, caps) ==
    IF i > Len(alts) THEN NoMatch
    ELSE LET r == MatchFrom(alts[i] \o rest, text, pos, caps)
         IN  IF r.ok THEN r
             ELSE TryAlts(alts, i + 1, rest, text, pos, caps)

\* re.search scanning from position start: the leftmost position at which
\* the pattern matches, with the match found there
SearchFrom(items, text, start, ngroups) ==
    LET hits == {s \in start..(Len(text) + 1) :
                    MatchFrom(items, text, s, NoCaps(ngroups)).ok}
    IN  IF hits = {} THEN NoMatch
        ELSE LET first == CHOOSE s \in hits : \A t \in hits : s <= t
                 r == MatchFrom(items, text, first, NoCaps(ngroups))
             IN  [ok |-> TRUE, start |-> first, end |-> r.end,
                  caps |-> r.caps]

\* re.search
Search(items, text, ngroups) == SearchFrom(items, text, 1, ngroups)

\* m.group(g)
Group(text, m, g) == SubSeq(text, m.caps[g].s, m.caps[g].e - 1)

RECURSIVE FindAllFrom(_, _, _, _)
\* re.findall: successive non-overlapping matches, left to right
FindAllFrom(items, text, start, ngroups) ==
    LET m == SearchFrom(items, text, start, ngroups)
    IN  IF ~m.ok THEN <<>>
        ELSE <<[g \in 1..ngroups |-> Group(text, m, g)]>>
             \o FindAllFrom(items, text,
                            IF m.end = m.start THEN m.end + 1 ELSE m.end,
                            ngroups)

FindAll(items, text, ngroups) == FindAllFrom(items, text, 1, ngroups)

----------------------------------------------------------------------------
(* Program constants                                                       *)

STUDENT_NAME_DEFAULT ==
    <<"S", "t", "u", "d", "e", "n", "t", " ", "N", "a", "m", "e">>

REGISTER_NO_DEFAULT ==
    <<"R", "e", "g", "i", "s", "t", "e", "r", " ", "N", "o">>

\* the keys of GRADE_POINTS
GRADE_KEYS ==
    {<<"O">>, <<"A", "+">>, <<"A">>, <<"B", "+">>, <<"B">>, <<"C">>, <<"U">>}

\* GRADE_POINTS.get(grade, 0)
GRADE_POINTS_get(grade) ==
    CASE grade = <<"O">> -> 10
      [] grade = <<"A", "+">> -> 9
      [] grade = <<"A">> -> 8
      [] grade = <<"B", "+">> -> 7
      [] grade = <<"B">> -> 6
      [] grade = <<"C">> -> 5
      [] grade = <<"U">> -> 0
      [] OTHER -> 0

\* the value extract_semester returns when no rule matches (int() of \d+
\* is never negative)
None == 0 - 1

----------------------------------------------------------------------------
(* The extractors                                                          *)

\* r"Name of the Candidate\s+([A-Z ]+?)(?:\s+Month|\s+Date|\n)", IGNORECASE
NamePattern ==
    <<Lit(<<"N", "a", "m", "e", " ", "o", "f", " ", "t", "h", "e", " ",
            "C", "a", "n", "d", "i", "d", "a", "t", "e">>, TRUE),
      Plus(Space), Open(1), LazyPlus(IgnoreCase(Upper \cup {" "})), Close(1),
      Alt(<<<<Plus(Space), Lit(<<"M", "o", "n", "t", "h">>, TRUE)>>,
            <<Plus(Space), Lit(<<"D", "a", "t", "e">>, TRUE)>>,
            <<One({"\n"})>>>>)>>

\* r"Register No\s+([A-Z0-9]+)", IGNORECASE
RegPattern ==
    <<Lit(<<"R", "e", "g", "i", "s", "t", "e", "r", " ", "N", "o">>, TRUE),
      Plus(Space), Open(1), Plus(IgnoreCase(Upper \cup Digits)), Close(1)>>

extract_student_details(text) ==
    LET name_match == Search(NamePattern, text, 1)
        reg_match == Search(RegPattern, text, 1)
    IN  <<IF name_match.ok THEN Strip(Group(text, name_match, 1))
          ELSE STUDENT_NAME_DEFAULT,
          IF reg_match.ok THEN Strip(Group(text, reg_match, 1))
          ELSE REGISTER_NO_DEFAULT>>

\* r"\bSEMESTER\s+(\d+)", IGNORECASE
SemesterPattern ==
    <<WordBoundary, Lit(<<"S", "E", "M", "E", "S", "T", "E", "R">>, TRUE),
      Plus(Space), Open(1), Plus(Digits), Close(1)>>

\* r"\b\d{2}[A-Z]{2}(\d)\d{2}\b"
SubjectCodePattern ==
    <<WordBoundary, Cls(Digits, 2, 2, FALSE), Cls(Upper, 2, 2, FALSE),
      Open(1), One(Digits), Close(1), Cls(Digits, 2, 2, FALSE), WordBoundary>>

extract_semester(text) ==
    LET m == Search(SemesterPattern, text, 1)
    IN  IF m.ok THEN ToInt(Group(text, m, 1))
        ELSE LET m2 == Search(SubjectCodePattern, text, 1)
             IN  IF m2.ok THEN ToInt(Group(text, m2, 1)) ELSE None

SubjectNameChars ==
    Upper \cup Lower \cup Digits
          \cup {" ", "+", "(", ")", ".", ",", ":", "/", "-"}

\* r"([A-Z0-9]{5,7})\s+([A-Za-z0-9 +().,:/\-]+?)\s+(\d)\s+([OABC][+]?)"
SubjectPattern ==
    <<Open(1), Cls(Upper \cup Digits, 5, 7, FALSE), Close(1), Plus(Space),
      Open(2), LazyPlus(SubjectNameChars), Close(2), Plus(Space),
      Open(3), One(Digits), Close(3), Plus(Space),
      Open(4), One({"O", "A", "B", "C"}), Opt({"+"}), Close(4)>>

\* code[-5:]
Last5(code) ==
    IF Len(code) <= 5 THEN code ELSE SubSeq(code, Len(code) - 4, Len(code))

extract_subjects(text) ==
    LET matches == FindAll(SubjectPattern, text, 4)
    IN  [i \in 1..Len(matches) |->
            [code |-> Last5(matches[i][1]),
             name |-> Strip(matches[i][2]),
             credit |-> ToInt(matches[i][3]),
             grade |-> matches[i][4]]]

----------------------------------------------------------------------------
(* SGPA arithmetic                                                         *)

RECURSIVE Normalize(_, _)
\* scale n/d by powers of two into [1, 2)
Normalize(n, d) ==
    IF n >= 2 * d THEN Normalize(n, 2 * d)
    ELSE IF n < d THEN Normalize(2 * n, d)
    ELSE <<n, d>>

RECURSIVE Mantissa(_, _, _, _)
\* binary long division: the remainder and the parity of the last quotient
\* bit after k further bits
Mantissa(r, d, k, odd) ==
    IF k = 0 THEN <<r, odd>>
    ELSE IF 2 * r >= d THEN Mantissa(2 * r - d, d, k - 1, TRUE)
    ELSE Mantissa(2 * r, d, k - 1, FALSE)

\* the sign of (total_points / total_credits as an IEEE double) minus the
\* exact quotient: a double keeps 53 significant bits, rounded to nearest,
\* ties to even
DivisionError(n, d) ==
    LET nd == Normalize(n, d)
        m == Mantissa(nd[1] - nd[2], nd[2], 52, TRUE)
    IN  IF m[1] = 0 THEN 0
        ELSE IF 2 * m[1] > nd[2] THEN 1
        ELSE IF 2 * m[1] < nd[2] THEN 0 - 1
        ELSE IF m[2] THEN 1 ELSE 0 - 1

\* Round2 cutting the quotient off after two decimals instead of rounding
Round2_truncate(n, d) == (100 * n) \div d

\* round(n / d, 2) in hundredths, for n >= 0 and d > 0: float division,
\* then the double is rounded correctly to two decimals (an exact half goes
\* to the even hundredth)
Round2(n, d) ==
    LET q == (100 * n) \div d
        r == (100 * n) % d
    IN  IF 2 * r < d THEN q
        ELSE IF 2 * r > d THEN q + 1
        ELSE LET e == DivisionError(n, d)
             IN  IF e > 0 THEN q + 1
                 ELSE IF e < 0 THEN q
                 ELSE IF q % 2 = 0 THEN q ELSE q + 1

RECURSIVE SgpaLoop_break(_, _, _, _)
\* SgpaLoop leaving the loop at the first credit-0 subject (break for
\* continue)
SgpaLoop_break(subjects, i, total_points, total_credits) ==
    IF i > Len(subjects) THEN <<total_points, total_credits>>
    ELSE IF subjects[i].credit = 0
         THEN <<total_points, total_credits>>
         ELSE SgpaLoop_break(subjects, i + 1,
                             total_points
                               + GRADE_POINTS_get(subjects[i].grade)
                                   * subjects[i].credit,
                             total_credits + subjects[i].credit)

RECURSIVE SgpaLoop(_, _, _, _)
\* the for loop of calculate_sgpa from subject i on, with the running totals
SgpaLoop(subjects, i, total_points, total_credits) ==
    IF i > Len(subjects) THEN <<total_points, total_credits>>
    ELSE IF subjects[i].credit = 0
         THEN SgpaLoop(subjects, i + 1, total_points, total_credits)
         ELSE SgpaLoop(subjects, i + 1,
                       total_points
                         + GRADE_POINTS_get(subjects[i].grade) * subjects[i].credit,
                       total_credits + subjects[i].credit)

\* returns <<sgpa (hundredths), total_credits, total_points>>
calculate_sgpa(subjects) ==
    LET t == SgpaLoop(subjects, 1, 0, 0)
        total_points == t[1]
        total_credits == t[2]
    IN  <<IF total_credits # 0 THEN Round2(total_points, total_credits) ELSE 0,
          total_credits, total_points>>

----------------------------------------------------------------------------
(* The /generate handler                                                   *)

\* DictSet keeping the record already stored for the key (setdefault)
DictSet_keep_first(map, rec) ==
    IF \E j \in 1..Len(map) : map[j].no = rec.no THEN map
    ELSE Append(map, rec)

\* semester_map[semester] = rec on a dict that keeps insertion order: an
\* existing key keeps its place and gets the new value
DictSet(map, rec) ==
    IF \E j \in 1..Len(map) : map[j].no = rec.no
    THEN [j \in 1..Len(map) |-> IF map[j].no = rec.no THEN rec ELSE map[j]]
    ELSE Append(map, rec)

RECURSIVE InsertByNo(_, _)
\* rec placed after every element whose key is not larger (stable)
InsertByNo(sorted_part, rec) ==
    IF sorted_part = <<>> THEN <<rec>>
    ELSE IF Head(sorted_part).no <= rec.no
         THEN <<Head(sorted_part)>> \o InsertByNo(Tail(sorted_part), rec)
         ELSE <<rec>> \o sorted_part

\* sorted leaving the values in the order the dict holds them
sorted_unsorted(values) == values

RECURSIVE sorted(_)
\* sorted(semester_map.values(), key=lambda x: x["no"])
sorted(values) ==
    IF values = <<>> THEN <<>>
    ELSE InsertByNo(sorted(SubSeq(values, 1, Len(values) - 1)),
                    values[Len(values)])

RECURSIVE SumPoints(_)
\* sum(s["points"] for s in semesters)
SumPoints(semesters) ==
    IF semesters = <<>> THEN 0
    ELSE Head(semesters).points + SumPoints(Tail(semesters))

RECURSIVE SumCredits(_)
\* sum(s["credits"] for s in semesters)
SumCredits(semesters) ==
    IF semesters = <<>> THEN 0
    ELSE Head(semesters).credits + SumCredits(Tail(semesters))

\* the locals of generate before the loop
InitialLocals ==
    [semester_map |-> <<>>,
     student_name |-> STUDENT_NAME_DEFAULT,
     reg_no |-> REGISTER_NO_DEFAULT]

\* LoopBody taking the identity only from documents whose term resolves
\* (the semester check moved above the assignment)
LoopBody_identity_when_resolved(loc, text) ==
    LET details == extract_student_details(text)
        semester == extract_semester(text)
    IN  IF semester = None THEN loc
        ELSE LET subjects == extract_subjects(text)
                 r == calculate_sgpa(subjects)
             IN  [loc EXCEPT !.student_name = details[1],
                             !.reg_no = details[2],
                             !.semester_map =
                                 DictSet(loc.semester_map,
                                         [no |-> semester, sgpa |-> r[1],
                                          subjects |-> subjects,
                                          credits |-> r[2], points |-> r[3]])]

\* LoopBody without the `continue`: an unresolved document is stored too,
\* under the key None
LoopBody_no_skip(loc, text) ==
    LET details == extract_student_details(text)
        semester == extract_semester(text)
        subjects == extract_subjects(text)
        r == calculate_sgpa(subjects)
    IN  [loc EXCEPT !.student_name = details[1],
                    !.reg_no = details[2],
                    !.semester_map =
                        DictSet(loc.semester_map,
                                [no |-> semester, sgpa |-> r[1],
                                 subjects |-> subjects,
                                 credits |-> r[2], points |-> r[3]])]

\* one iteration of the for loop of generate, on the text read for the file
LoopBody(loc, text) ==
    LET details == extract_student_details(text)
        semester == extract_semester(text)
        named == [loc EXCEPT !.student_name = details[1],
                             !.reg_no = details[2]]
    IN  IF semester = None THEN named
        ELSE LET subjects == extract_subjects(text)
                 r == calculate_sgpa(subjects)
             IN  [named EXCEPT !.semester_map =
                     DictSet(loc.semester_map,
                             [no |-> semester, sgpa |-> r[1],
                              subjects |-> subjects,
                              credits |-> r[2], points |-> r[3]])]

RECURSIVE SumSgpa(_)
SumSgpa(semesters) ==
    IF semesters = <<>> THEN 0
    ELSE Head(semesters).sgpa + SumSgpa(Tail(semesters))

\* CertificateData with the CGPA taken as the mean of the SGPAs
CertificateData_mean_of_sgpa(loc) ==
    LET semesters == sorted(loc.semester_map)
        cgpa == IF semesters # <<>>
                THEN Round2(SumSgpa(semesters), 100 * Len(semesters))
                ELSE 0
    IN  [name |-> loc.student_name, reg |-> loc.reg_no, cgpa |-> cgpa,
         semesters |-> semesters]

\* the code after the loop: the dict handed to generate_certificate
CertificateData(loc) ==
    LET semesters == sorted(loc.semester_map)
        grand_points == SumPoints(semesters)
        grand_credits == SumCredits(semesters)
        cgpa == IF grand_credits # 0 THEN Round2(grand_points, grand_credits)
                ELSE 0
    IN  [name |-> loc.student_name, reg |-> loc.reg_no, cgpa |-> cgpa,
         semesters |-> semesters]

\* the certificate is laid out from data alone; the file written holds it
generate_certificate(data) == data

----------------------------------------------------------------------------
(* Texts of uploaded documents                                             *)

\* "Name of the Candidate ASHA R Month\nRegister No 73A1\n"
HdrAsha ==
    <<"N", "a", "m", "e", " ", "o", "f", " ", "t", "h", "e", " ", "C",
      "a", "n", "d", "i", "d", "a", "t", "e", " ", "A", "S", "H", "A",
      " ", "R", " ", "M", "o", "n", "t", "h", "\n", "R", "e", "g", "i",
      "s", "t", "e", "r", " ", "N", "o", " ", "7", "3", "A", "1", "\n">>

\* "name of the candidate Ravi\nREGISTER NO 9B2\n"
HdrRavi ==
    <<"n", "a", "m", "e", " ", "o", "f", " ", "t", "h", "e", " ", "c",
      "a", "n", "d", "i", "d", "a", "t", "e", " ", "R", "a", "v", "i",
      "\n", "R", "E", "G", "I", "S", "T", "E", "R", " ", "N", "O", " ",
      "9", "B", "2", "\n">>

\* "SEMESTER 3\n"
Sem3 ==
    <<"S", "E", "M", "E", "S", "T", "E", "R", " ", "3", "\n">>

\* "Semester 1\n"
Sem1 ==
    <<"S", "e", "m", "e", "s", "t", "e", "r", " ", "1", "\n">>

\* "SEMESTER 0\n"
Sem0 ==
    <<"S", "E", "M", "E", "S", "T", "E", "R", " ", "0", "\n">>

\* "23CS101 Maths 3 O\n"
RowMaths ==
    <<"2", "3", "C", "S", "1", "0", "1", " ", "M", "a", "t", "h", "s",
      " ", "3", " ", "O", "\n">>

\* "23CS102 Physics 4 A\n"
RowPhysics ==
    <<"2", "3", "C", "S", "1", "0", "2", " ", "P", "h", "y", "s", "i",
      "c", "s", " ", "4", " ", "A", "\n">>

\* "23CS103 Lab 0 A+\n"
RowLab ==
    <<"2", "3", "C", "S", "1", "0", "3", " ", "L", "a", "b", " ", "0",
      " ", "A", "+", "\n">>

\* "23CS201 Data 3 A\n"
RowData ==
    <<"2", "3", "C", "S", "2", "0", "1", " ", "D", "a", "t", "a", " ",
      "3", " ", "A", "\n">>

\* "23CS202 Algo 3 A\n"
RowAlgo ==
    <<"2", "3", "C", "S", "2", "0", "2", " ", "A", "l", "g", "o", " ",
      "3", " ", "A", "\n">>

\* "AS201 Chem 3 O+\n"
RowChem ==
    <<"A", "S", "2", "0", "1", " ", "C", "h", "e", "m", " ", "3", " ",
      "O", "+", "\n">>

\* "23CS001 Yoga 2 U\n"
RowYoga ==
    <<"2", "3", "C", "S", "0", "0", "1", " ", "Y", "o", "g", "a", " ",
      "2", " ", "U", "\n">>

\* "CS301 Graphs 2 B+\n"
RowGraphs ==
    <<"C", "S", "3", "0", "1", " ", "G", "r", "a", "p", "h", "s", " ",
      "2", " ", "B", "+", "\n">>

\* the texts extract_text returns for the documents a request may carry
Texts ==
    <<HdrAsha \o RowMaths \o RowPhysics,
      HdrRavi \o RowData \o RowAlgo,
      Sem3 \o RowLab \o RowMaths \o RowGraphs,
      HdrAsha \o Sem3 \o RowChem,
      HdrRavi,
      <<>>,
      Sem0 \o RowPhysics,
      Sem1 \o RowPhysics \o RowLab \o RowData>>

\* extract_text(path) for an uploaded document
extract_text(f) == Texts[f]

\* most files in one request
MaxFiles == 3

RECURSIVE SeqsUpTo(_, _)
\* the sequences over S of length at most n
SeqsUpTo(S, n) ==
    IF n = 0 THEN {<<>>}
    ELSE LET shorter == SeqsUpTo(S, n - 1)
         IN  shorter \cup {Append(q, x) : q \in shorter, x \in S}

----------------------------------------------------------------------------
(* State                                                                   *)

VARIABLES
    files,          \* request.files.getlist("pdfs"): the documents, in order
    next_file,      \* how many files the for loop has processed
    locals,         \* semester_map, student_name, reg_no of generate
    pc,             \* "loop" while in the for loop, "done" after send_file
    response,       \* the certificate sent back
    text_in,        \* a text handed to the extractors on their own
    extracted,      \* what the extractors returned for text_in
    subjects_in,    \* a subject list handed to calculate_sgpa on its own
    sgpa_out,       \* what calculate_sgpa returned for subjects_in
    reqs,           \* the /generate requests served side by side
    uploads,        \* the files of UPLOAD_FOLDER, by name
    certificate     \* the file CGPA_Certificate.pdf

vars ==
    <<files, next_file, locals, pc, response, text_in, extracted,
      subjects_in, sgpa_out, reqs, uploads, certificate>>

requestVars == <<files, next_file, locals, pc, response>>

extractVars == <<text_in, extracted>>

sgpaVars == <<subjects_in, sgpa_out>>

serverVars == <<reqs, uploads, certificate>>

NoResponse == <<>>

RequestIdle ==
    /\ files = <<>>
    /\ next_file = 0
    /\ locals = InitialLocals
    /\ pc = "idle"
    /\ response = NoResponse

\* nothing extracted yet
NotExtracted ==
    [has_details |-> FALSE, details |-> <<>>,
     has_semester |-> FALSE, semester |-> None,
     has_subjects |-> FALSE, subjects |-> <<>>]

ExtractIdle ==
    /\ text_in = <<>>
    /\ extracted = NotExtracted

\* calculate_sgpa not yet called
NotCalculated == [returned |-> FALSE, sgpa |-> 0, credits |-> 0, points |-> 0]

SgpaIdle ==
    /\ subjects_in = <<>>
    /\ sgpa_out = NotCalculated

ServerIdle ==
    /\ reqs = <<>>
    /\ uploads = <<>>
    /\ certificate = NoResponse

----------------------------------------------------------------------------
(* One /generate request                                                   *)

Init ==
    /\ files \in SeqsUpTo(1..Len(Texts), MaxFiles)
    /\ next_file = 0
    /\ locals = InitialLocals
    /\ pc = "loop"
    /\ response = NoResponse
    /\ ExtractIdle
    /\ SgpaIdle
    /\ ServerIdle

\* lines 202-222: the loop body for the next file
ProcessFile ==
    /\ pc = "loop"
    /\ next_file < Len(files)
    /\ locals' = LoopBody(locals, extract_text(files[next_file + 1]))
    /\ next_file' = next_file + 1
    /\ UNCHANGED <<files, pc, response, extractVars, sgpaVars, serverVars>>

\* lines 225-244: sort, CGPA, certificate, send_file
Finish ==
    /\ pc = "loop"
    /\ next_file = Len(files)
    /\ response' = generate_certificate(CertificateData(locals))
    /\ pc' = "done"
    /\ UNCHANGED <<files, next_file, locals, extractVars, sgpaVars, serverVars>>

Next == ProcessFile \/ Finish

Spec == Init /\ [][Next]_vars

----------------------------------------------------------------------------
(* Properties of one /generate request                                     *)

\* what the extractors return for each document text, computed once
Extraction ==
    {<<f, [details |-> extract_student_details(extract_text(f)),
           semester |-> extract_semester(extract_text(f)),
           subjects |-> extract_subjects(extract_text(f))]>> :
        f \in 1..Len(Texts)}

\* the extraction of the j-th uploaded document
ExtractionOf(j) == (CHOOSE e \in Extraction : e[1] = files[j])[2]

\* the term the j-th uploaded document resolves to (None if unresolved)
TermOf(j) == ExtractionOf(j).semester

\* the subjects extracted from the j-th uploaded document
SubjectsOf(j) == ExtractionOf(j).subjects

\* the identity extracted from the j-th uploaded document
DetailsOf(j) == ExtractionOf(j).details

\* the term numbers some uploaded document resolves to
ResolvedTerms == {TermOf(j) : j \in 1..Len(files)} \ {None}

\* the last document, in upload order, that resolves to term t
LastFor(t) ==
    CHOOSE j \in 1..Len(files) :
        /\ TermOf(j) = t
        /\ \A k \in 1..Len(files) : TermOf(k) = t => k <= j

\* the records of the final summary for term t
RecordsFor(t) ==
    {k \in 1..Len(response.semesters) : response.semesters[k].no = t}

\* C1: when the request is done, `terms` (the semesters of the certificate)
\* is sorted strictly ascending by term number, so no term number occurs
\* twice, whatever the number, order and terms of the uploaded documents.
C1_TermsStrictlyAscending ==
    pc = "done" =>
        \A a, b \in 1..Len(response.semesters) :
            a < b => response.semesters[a].no < response.semesters[b].no

\* a finished request whose documents came in descending term order, two of
\* them colliding on one term and one unresolved
C1_Witness ==
    /\ pc = "done"
    /\ Len(response.semesters) >= 2
    /\ \E j, k \in 1..Len(files) :
           j < k /\ TermOf(k) # None /\ TermOf(j) > TermOf(k)
    /\ \E j, k \in 1..Len(files) :
           j < k /\ TermOf(j) # None /\ TermOf(j) = TermOf(k)

\* C2: for every term t some document resolves to, the final summary has
\* exactly one record for t, and its subjects, credits, weighted points and
\* average are those extracted from the last document in upload order that
\* resolved to t (replace, not merge).
C2_LastDocumentReplaces ==
    pc = "done" =>
        \A t \in ResolvedTerms :
            /\ Cardinality(RecordsFor(t)) = 1
            /\ \A k \in RecordsFor(t) :
                   LET rec == response.semesters[k]
                       subjects == SubjectsOf(LastFor(t))
                       r == calculate_sgpa(subjects)
                   IN  /\ rec.subjects = subjects
                       /\ rec.sgpa = r[1]
                       /\ rec.credits = r[2]
                       /\ rec.points = r[3]

\* a finished request in which two documents with different subjects
\* resolved to the same term
C2_Witness ==
    /\ pc = "done"
    /\ \E j, k \in 1..Len(files) :
           /\ j < k
           /\ TermOf(j) # None
           /\ TermOf(j) = TermOf(k)
           /\ SubjectsOf(j) # SubjectsOf(k)
           /\ SubjectsOf(j) # <<>>
           /\ LastFor(TermOf(j)) = k

\* the documents whose records survive: the last one for each resolved term
Surviving == {LastFor(t) : t \in ResolvedTerms}

RECURSIVE SumOver(_, _)
\* the sum of f[j] over the finite set S
SumOver(S, f) ==
    IF S = {} THEN 0
    ELSE LET j == CHOOSE x \in S : TRUE
         IN  f[j] + SumOver(S \ {j}, f)

SurvivingPoints ==
    SumOver(Surviving, [j \in Surviving |-> calculate_sgpa(SubjectsOf(j))[3]])

SurvivingCredits ==
    SumOver(Surviving, [j \in Surviving |-> calculate_sgpa(SubjectsOf(j))[2]])

\* v (hundredths) is n / d rounded to two decimals
IsRounded2(v, n, d) ==
    /\ 2 * (v * d - 100 * n) <= d
    /\ 2 * (100 * n - v * d) <= d

\* C5: overallAverage is the sum of the weighted points of the surviving
\* records over the sum of their credits, rounded to 2 decimals, or 0 when
\* the credit sum is 0; replaced documents add to neither sum; terms of
\* 62 points / 7 credits and 48 points / 6 credits give 8.46.
C5_OverallAverage ==
    pc = "done" =>
        /\ SurvivingCredits = 0 => response.cgpa = 0
        /\ SurvivingCredits # 0 =>
               IsRounded2(response.cgpa, SurvivingPoints, SurvivingCredits)
        /\ (/\ Len(response.semesters) = 2
            /\ response.semesters[1].points = 62
            /\ response.semesters[1].credits = 7
            /\ response.semesters[2].points = 48
            /\ response.semesters[2].credits = 6) => response.cgpa = 846

\* the 62/7 and 48/6 terms, the first of them uploaded after a document of
\* the same term (with credits of its own) that it replaced
C5_Witness ==
    /\ pc = "done"
    /\ Len(files) = 3
    /\ TermOf(1) = TermOf(2)
    /\ calculate_sgpa(SubjectsOf(1))[2] > 0
    /\ Len(response.semesters) = 2
    /\ response.semesters[1].points = 62
    /\ response.semesters[1].credits = 7
    /\ response.semesters[2].points = 48
    /\ response.semesters[2].credits = 6
    /\ response.semesters[1].sgpa = 886
    /\ response.semesters[2].sgpa = 800
    /\ response.cgpa = 846

\* C6: the identity of the final summary is extract_student_details of the
\* last uploaded document, resolved or not, with or without subjects; for
\* an empty batch it is the placeholder pair.
C6_LastDocumentIdentity ==
    pc = "done" =>
        IF files = <<>>
        THEN /\ response.name = STUDENT_NAME_DEFAULT
             /\ response.reg = REGISTER_NO_DEFAULT
        ELSE <<response.name, response.reg>>
                 = DetailsOf(Len(files))

\* a finished request whose last document is unresolved and names a
\* different student than an earlier, resolved document
C6_Witness ==
    /\ pc = "done"
    /\ Len(files) >= 2
    /\ TermOf(Len(files)) = None
    /\ TermOf(1) # None
    /\ DetailsOf(1)[1] # STUDENT_NAME_DEFAULT
    /\ DetailsOf(1) # DetailsOf(Len(files))
    /\ response.name # STUDENT_NAME_DEFAULT

\* the subjects of a list that carry credit
WithCredit(subjects) == SelectSeq(subjects, LAMBDA sub : sub.credit # 0)

RECURSIVE CreditTotal(_)
CreditTotal(subjects) ==
    IF subjects = <<>> THEN 0
    ELSE Head(subjects).credit + CreditTotal(Tail(subjects))

RECURSIVE PointTotal(_)
PointTotal(subjects) ==
    IF subjects = <<>> THEN 0
    ELSE GRADE_POINTS_get(Head(subjects).grade) * Head(subjects).credit
         + PointTotal(Tail(subjects))

\* C8: a subject with credit 0 adds nothing to totalCredits and
\* totalWeightedPoints (the totals are those of the list without the
\* credit-0 subjects), and it stays, in its place, in the subjects of its
\* TermRecord.
C8_ZeroCreditSubjects ==
    pc = "done" =>
        \A k \in 1..Len(response.semesters) :
            LET rec == response.semesters[k]
                subjects == SubjectsOf(LastFor(rec.no))
            IN  /\ rec.subjects = subjects
                /\ rec.credits = CreditTotal(WithCredit(subjects))
                /\ rec.points = PointTotal(WithCredit(subjects))

\* a term record whose subjects hold a credit-0 subject before one that
\* carries credit
C8_Witness ==
    /\ pc = "done"
    /\ \E k \in 1..Len(response.semesters) :
           LET subjects == response.semesters[k].subjects
           IN  /\ \E a, b \in 1..Len(subjects) :
                      /\ a < b
                      /\ subjects[a].credit = 0
                      /\ subjects[b].credit # 0
               /\ response.semesters[k].credits > 0

\* the unresolved-document step leaves the term map alone and the loop goes on
UnresolvedStepKeepsMap ==
    (/\ pc = "loop"
     /\ next_file < Len(files)
     /\ TermOf(next_file + 1) = None
     /\ next_file' = next_file + 1)
        => /\ locals'.semester_map = locals.semester_map
           /\ pc' = "loop"

\* the final terms are exactly the resolved ones
FinalTermsAreResolvedTerms ==
    pc = "done" =>
        /\ {response.semesters[k].no : k \in 1..Len(response.semesters)}
               = ResolvedTerms
        /\ ResolvedTerms = {} =>
               response.semesters = <<>> /\ response.cgpa = 0

\* C10: processing a document whose term is unresolved leaves the term map
\* unchanged and does not end the batch, so the term numbers of the final
\* `terms` are exactly those the documents resolve; with no resolved
\* document, terms is empty and overallAverage is 0.
C10_UnresolvedDocumentsChangeNothing ==
    [][UnresolvedStepKeepsMap]_vars /\ []FinalTermsAreResolvedTerms

\* a finished request with an unresolved document between resolved ones
C10_Witness ==
    /\ pc = "done"
    /\ Len(files) = 3
    /\ TermOf(1) # None
    /\ TermOf(2) = None
    /\ TermOf(3) # None
    /\ TermOf(1) # TermOf(3)
    /\ Len(response.semesters) = 2

----------------------------------------------------------------------------
(* calculate_sgpa on its own                                               *)

\* most subjects in a list handed to calculate_sgpa
MaxSubjects == 2

\* largest credit of a subject handed to calculate_sgpa
MaxCredit == 4

\* the grades of GRADE_POINTS and one that is not among them
GradeInputs == GRADE_KEYS \cup {<<"O", "+">>}

SubjectInputs ==
    {[code |-> <<"C", "S", "1", "0", "1">>, name |-> <<"M", "a", "t", "h", "s">>,
      credit |-> c, grade |-> g] : c \in 0..MaxCredit, g \in GradeInputs}

InitSgpa ==
    /\ subjects_in \in SeqsUpTo(SubjectInputs, MaxSubjects)
    /\ sgpa_out = NotCalculated
    /\ RequestIdle
    /\ ExtractIdle
    /\ ServerIdle

\* lines 89-103
CalculateSgpa ==
    /\ ~sgpa_out.returned
    /\ LET r == calculate_sgpa(subjects_in)
       IN  sgpa_out' = [returned |-> TRUE, sgpa |-> r[1], credits |-> r[2],
                        points |-> r[3]]
    /\ UNCHANGED <<subjects_in, requestVars, extractVars, serverVars>>

NextSgpa == CalculateSgpa

SpecSgpa == InitSgpa /\ [][NextSgpa]_vars

\* C3 as stated: averagePoints is 0 if and only if totalCredits is 0, and
\* otherwise it is totalWeightedPoints / totalCredits rounded to 2 decimals.
C3_AverageZeroIffNoCredits ==
    sgpa_out.returned =>
        /\ (sgpa_out.sgpa = 0) <=> (sgpa_out.credits = 0)
        /\ sgpa_out.credits # 0 =>
               IsRounded2(sgpa_out.sgpa, sgpa_out.points, sgpa_out.credits)

\* the subjects [credit 3 grade O, credit 4 grade A]
IsExampleSubjects(subjects) ==
    /\ Len(subjects) = 2
    /\ subjects[1].credit = 3 /\ subjects[1].grade = <<"O">>
    /\ subjects[2].credit = 4 /\ subjects[2].grade = <<"A">>

\* C3, amended: averagePoints is 0 whenever totalCredits is 0; when
\* totalCredits is not 0, averagePoints is totalWeightedPoints / totalCredits
\* rounded to 2 decimals (which is 0 when every counted grade is worth 0
\* points); [credit 3 grade O, credit 4 grade A] gives 62, 7 and 8.86.
C3_AverageRounded ==
    sgpa_out.returned =>
        /\ sgpa_out.credits = CreditTotal(subjects_in)
        /\ sgpa_out.points = PointTotal(subjects_in)
        /\ sgpa_out.credits = 0 => sgpa_out.sgpa = 0
        /\ sgpa_out.credits # 0 =>
               IsRounded2(sgpa_out.sgpa, sgpa_out.points, sgpa_out.credits)
        /\ IsExampleSubjects(subjects_in) =>
               /\ sgpa_out.points = 62
               /\ sgpa_out.credits = 7
               /\ sgpa_out.sgpa = 886

\* calculate_sgpa has returned for the example subjects
C3_Witness ==
    /\ sgpa_out.returned
    /\ IsExampleSubjects(subjects_in)
    /\ sgpa_out.sgpa = 886

----------------------------------------------------------------------------
(* The extractors on their own                                             *)

\* most subject rows in a text handed to the extractors
MaxRows == 2

Headers == {<<>>, HdrAsha, HdrRavi}

SemesterLines == {<<>>, Sem3, Sem1, Sem0}

Rows == {RowMaths, RowLab, RowAlgo, RowChem, RowYoga, RowGraphs}

RECURSIVE Concat(_)
Concat(parts) ==
    IF parts = <<>> THEN <<>> ELSE Head(parts) \o Concat(Tail(parts))

TextInputs ==
    {h \o m \o Concat(rows) :
        h \in Headers, m \in SemesterLines, rows \in SeqsUpTo(Rows, MaxRows)}

InitExtract ==
    /\ text_in \in TextInputs
    /\ extracted = NotExtracted
    /\ RequestIdle
    /\ SgpaIdle
    /\ ServerIdle

\* lines 32-54
ExtractStudentDetails ==
    /\ ~extracted.has_details
    /\ extracted' = [extracted EXCEPT !.has_details = TRUE,
                                      !.details = extract_student_details(text_in)]
    /\ UNCHANGED <<text_in, requestVars, sgpaVars, serverVars>>

\* lines 58-69
ExtractSemester ==
    /\ ~extracted.has_semester
    /\ extracted' = [extracted EXCEPT !.has_semester = TRUE,
                                      !.semester = extract_semester(text_in)]
    /\ UNCHANGED <<text_in, requestVars, sgpaVars, serverVars>>

\* lines 73-85
ExtractSubjects ==
    /\ ~extracted.has_subjects
    /\ extracted' = [extracted EXCEPT !.has_subjects = TRUE,
                                      !.subjects = extract_subjects(text_in)]
    /\ UNCHANGED <<text_in, requestVars, sgpaVars, serverVars>>

NextExtract == ExtractStudentDetails \/ ExtractSemester \/ ExtractSubjects

SpecExtract == InitExtract /\ [][NextExtract]_vars

\* C4: every SubjectRecord produced by extract_subjects carries a grade that
\* is a key of GRADE_POINTS (O, A+, A, B+, B, C, U), so the fallback of
\* calculate_sgpa for unknown grades is never reached.
C4_GradesAreKnown ==
    extracted.has_subjects =>
        \A k \in 1..Len(extracted.subjects) :
            extracted.subjects[k].grade \in GRADE_KEYS

\* C7: whenever extract_semester returns a term number rather than None, by
\* either rule, the number is at least 1.
C7_TermNumberPositive ==
    (extracted.has_semester /\ extracted.semester # None) =>
        extracted.semester >= 1

----------------------------------------------------------------------------
(* /generate requests served side by side (app.run() serves each request   *)
(* on a thread of its own); they share UPLOAD_FOLDER and the working       *)
(* directory                                                               *)

\* requests in flight together
NumRequests == 2

\* most files in one of the requests served together
MaxFilesTogether == 1

Requests == 1..NumRequests

\* f.filename of the uploads
FileNames == {"sem1.pdf", "sem2.pdf"}

\* an upload: its filename and the document it holds
Uploads == {[filename |-> n, doc |-> d] : n \in FileNames, d \in {1, 2}}

\* no file of that name
NoFile == 0

NewRequest(fs) ==
    [files |-> fs, next_file |-> 0, locals |-> InitialLocals, pc |-> "save",
     docs_read |-> <<>>, response |-> NoResponse]

InitServer ==
    /\ reqs \in [Requests -> {NewRequest(fs) : fs \in SeqsUpTo(Uploads, MaxFilesTogether)}]
    /\ uploads = [n \in FileNames |-> NoFile]
    /\ certificate = NoResponse
    /\ RequestIdle
    /\ ExtractIdle
    /\ SgpaIdle

\* lines 203-204: f.save(os.path.join(UPLOAD_FOLDER, f.filename))
Save(r) ==
    /\ reqs[r].pc = "save"
    /\ reqs[r].next_file < Len(reqs[r].files)
    /\ LET f == reqs[r].files[reqs[r].next_file + 1]
       IN  uploads' = [uploads EXCEPT ![f.filename] = f.doc]
    /\ reqs' = [reqs EXCEPT ![r].pc = "read"]
    /\ UNCHANGED <<certificate, requestVars, extractVars, sgpaVars>>

\* lines 206-222: extract_text(path) reads the file of that name as it is
\* now; the rest of the loop body works on that text
Read(r) ==
    /\ reqs[r].pc = "read"
    /\ LET f == reqs[r].files[reqs[r].next_file + 1]
           doc == uploads[f.filename]
       IN  reqs' = [reqs EXCEPT
                       ![r].locals = LoopBody(reqs[r].locals, extract_text(doc)),
                       ![r].docs_read = Append(reqs[r].docs_read, doc),
                       ![r].next_file = reqs[r].next_file + 1,
                       ![r].pc = "save"]
    /\ UNCHANGED <<uploads, certificate, requestVars, extractVars, sgpaVars>>

\* lines 225-237: after the loop, generate_certificate writes
\* CGPA_Certificate.pdf in the working directory
Build(r) ==
    /\ reqs[r].pc = "save"
    /\ reqs[r].next_file = Len(reqs[r].files)
    /\ certificate' = generate_certificate(CertificateData(reqs[r].locals))
    /\ reqs' = [reqs EXCEPT ![r].pc = "send"]
    /\ UNCHANGED <<uploads, requestVars, extractVars, sgpaVars>>

\* lines 239-244: send_file sends what CGPA_Certificate.pdf holds now
Send(r) ==
    /\ reqs[r].pc = "send"
    /\ reqs' = [reqs EXCEPT ![r].response = certificate, ![r].pc = "done"]
    /\ UNCHANGED <<uploads, certificate, requestVars, extractVars, sgpaVars>>

NextServer ==
    \E r \in Requests : Save(r) \/ Read(r) \/ Build(r) \/ Send(r)

SpecServer == InitServer /\ [][NextServer]_vars

RECURSIVE OwnLocals(_, _)
\* the locals a request reaches on the documents it uploaded itself
OwnLocals(fs, n) ==
    IF n = 0 THEN InitialLocals
    ELSE LoopBody(OwnLocals(fs, n - 1), extract_text(fs[n].doc))

\* C9: requests are independent of each other however they interleave: the
\* text a request reads for a document is that of the document it uploaded,
\* and the certificate it returns is the one of its own documents.
C9_RequestsIndependent ==
    \A r \in Requests :
        /\ \A j \in 1..Len(reqs[r].docs_read) :
               reqs[r].docs_read[j] = reqs[r].files[j].doc
        /\ reqs[r].pc = "done" =>
               reqs[r].response
                   = generate_certificate(
                         CertificateData(OwnLocals(reqs[r].files,
                                                   Len(reqs[r].files))))

=============================================================================
